---- MODULE Spec2Model ----
(***************************************************************************)
(* The buffer pool manager instance (BPMI) and its LRU replacer:            *)
(*   src/src/buffer/buffer_pool_manager_instance.cpp                        *)
(*   src/src/buffer/lru_replacer.cpp                                        *)
(*                                                                         *)
(* Every public operation of the BPMI takes latch_ on its first line and    *)
(* holds it to its return, so its body is one atomic action.  The one       *)
(* exception is NewPgImp, which calls AllocatePage() (line 81) before it     *)
(* takes latch_ (line 83): AllocatePage's load of next_page_id_ (line 244)  *)
(* and its += (line 245) are two steps of their own, which interleave with  *)
(* the steps of other threads.  The += is taken to be one atomic             *)
(* read-modify-write (the most favourable reading of the member, whose      *)
(* declaration is in a header).                                             *)
(*                                                                         *)
(* The disk manager is an external collaborator: WritePage stores a page   *)
(* image and ReadPage returns the stored image.  The database file starts   *)
(* zero-filled: a page that was never written reads as zeros.               *)
(***************************************************************************)
EXTENDS Integers, Sequences, FiniteSets, TLC

\* ------------------------------------------------------------------ bounds
PoolSize == 2
MaxAlloc == 3
NumThreads == 2
MaxData == 1
MaxPin == 2
MaxInstances == 4
ReplCapacity == 4
MaxCalls == 2
MaxFrameId == 4

\* ------------------------------------------------------- program constants
INVALID_PAGE_ID == -1
NoFrame == -1

Frames == 0 .. (PoolSize - 1)
Threads == 1 .. NumThreads
NoThread == 0
Data == 0 .. MaxData
ZeroData == 0

VARIABLES
    pages,           \* pages_[f]: page_id, pin_count, is_dirty, data
    page_table,      \* page_table_: page id -> frame id (a partial map)
    free_list,       \* free_list_: a list of frame ids
    lru_list,        \* LRUReplacer::lru_list_, front first
    lru_map,         \* the keys of LRUReplacer::lru_map_
    next_page_id,    \* next_page_id_
    num_instances,   \* num_instances_
    instance_index,  \* instance_index_
    disk,            \* the disk manager's page images
    pc,              \* where each thread is in NewPgImp
    new_pid,         \* NewPgImp's local new_pid, per thread
    new_calls,       \* history: how many NewPgImp calls have ended
    new_results,     \* history: how many times NewPgImp has returned each page id
    held,            \* history: pins handed to callers and not yet given back, per frame
    committed,       \* history: the image a page had when a dirty unpin brought it to pin count 0
    law,             \* history: a run of FetchPage(p)/UnpinPage(p, *) calls on one resident page
    lru_ref,         \* history: the replacer's frames in the order they became evictable
    latch,           \* latch_: the thread that holds it, or NoThread
    mutex,           \* LRUReplacer::mutex_: the thread that holds it, or NoThread
    run,             \* the call each thread is in, when calls are followed lock by lock
    begun            \* history: how many calls other than NewPage were begun lock by lock

vars == <<pages, page_table, free_list, lru_list, lru_map, next_page_id,
          num_instances, instance_index, disk, pc, new_pid,
          new_calls, new_results, held, committed, law,
          lru_ref, latch, mutex, run, begun>>

bpmVars == <<pages, page_table, free_list, lru_list, lru_map, disk>>
config == <<num_instances, instance_index>>
others == <<lru_ref, latch, mutex, run, begun>>
callers == <<held, committed, law, others>>

\* ----------------------------------------------------------------- helpers
Put(m, k, v) == [x \in (DOMAIN m) \cup {k} |-> IF x = k THEN v ELSE m[x]]
Erase(m, k) == [x \in (DOMAIN m) \ {k} |-> m[x]]
EmptyMap == [x \in {} |-> 0]
Elems(s) == {s[i] : i \in 1 .. Len(s)}

\* The page ids this instance owns: instance_index + k * num_instances.
OwnIds == {instance_index + k * num_instances : k \in 0 .. (MaxAlloc - 1)}

\* ------------------------------------------------------------ disk manager
WritePage(d, p, bytes) == Put(d, p, bytes)
ReadPage(d, p) == IF p \in DOMAIN d THEN d[p] ELSE ZeroData

\* ------------------------------------------------------------- LRUReplacer
\* The replacer's state as a record r = [list, map, capacity]; the BPMI's
\* replacer has capacity_ = pool_size.
capacity == PoolSize
Replacer == [list |-> lru_list, map |-> lru_map, capacity |-> capacity]

\* LRUReplacer::Victim
VictimFromFront(r) ==
    IF r.list = <<>> \/ r.map = {}
    THEN [ok |-> FALSE, fid |-> NoFrame, r |-> r]
    ELSE [ok |-> TRUE, fid |-> Head(r.list),
          r |-> [r EXCEPT !.list = Tail(r.list), !.map = r.map \ {Head(r.list)}]]

Victim(r) ==
    IF r.list = <<>> \/ r.map = {}
    THEN [ok |-> FALSE, fid |-> NoFrame, r |-> r]
    ELSE LET victim_fid == r.list[Len(r.list)]
         IN [ok |-> TRUE, fid |-> victim_fid,
             r |-> [r EXCEPT !.list = SubSeq(r.list, 1, Len(r.list) - 1),
                             !.map = r.map \ {victim_fid}]]

\* The place in the list the iterator lru_map_[f] points at.
IterOf(list, f) == CHOOSE i \in 1 .. Len(list) :
                       list[i] = f /\ \A j \in 1 .. (i - 1) : list[j] # f

\* std::list::splice(begin(), list, it): the node at it moves to the front.
SpliceNone(list, i) == list
SpliceFront(list, i) ==
    <<list[i]>> \o SubSeq(list, 1, i - 1) \o SubSeq(list, i + 1, Len(list))

\* LRUReplacer::Pin
Pin(r, f) ==
    IF f \notin r.map THEN r
    ELSE [r EXCEPT !.list = Tail(SpliceFront(r.list, IterOf(r.list, f))),
                   !.map = r.map \ {f}]

\* LRUReplacer::Unpin
UnpinNoCap(r, f) ==
    IF f \in r.map THEN r
    ELSE [r EXCEPT !.list = <<f>> \o r.list, !.map = r.map \cup {f}]

Unpin(r, f) ==
    IF f \in r.map \/ Cardinality(r.map) = r.capacity THEN r
    ELSE [r EXCEPT !.list = <<f>> \o r.list, !.map = r.map \cup {f}]

\* --------------------------------------------- BufferPoolManagerInstance
\* The constructor: every frame is free, the replacer is empty,
\* next_page_id_ is instance_index.
InitPage == [page_id |-> INVALID_PAGE_ID, pin_count |-> 0,
             is_dirty |-> FALSE, data |-> ZeroData]

InitFreeList == [i \in 1 .. PoolSize |-> i - 1]

\* A thread that is in no call.
NoRun == [op |-> "none", p |-> INVALID_PAGE_ID, d |-> FALSE, calls |-> 0]

\* No run of FetchPage/UnpinPage calls is being followed.
NoLaw == [on |-> FALSE, p |-> INVALID_PAGE_ID, f |-> NoFrame,
          pin0 |-> 0, open |-> 0, done |-> FALSE]

InitWith(n, idx) ==
    /\ num_instances = n
    /\ instance_index = idx
    /\ next_page_id = idx
    /\ pages = [f \in Frames |-> InitPage]
    /\ page_table = EmptyMap
    /\ free_list = InitFreeList
    /\ lru_list = <<>>
    /\ lru_map = {}
    /\ disk = [p \in {idx + k * n : k \in 0 .. (MaxAlloc - 1)} |-> ZeroData]
    /\ pc = [t \in Threads |-> "idle"]
    /\ new_pid = [t \in Threads |-> INVALID_PAGE_ID]
    /\ new_calls = 0
    /\ new_results = [p \in {idx + k * n : k \in 0 .. (MaxAlloc - 1)} |-> 0]
    /\ held = [f \in Frames |-> 0]
    /\ committed = EmptyMap
    /\ law = NoLaw
    /\ lru_ref = <<>>
    /\ latch = NoThread
    /\ mutex = NoThread
    /\ run = [t \in Threads |-> NoRun]
    /\ begun = 0

\* The one-instance constructor (line 21) delegates with (1, 0).
Init == InitWith(1, 0)

\* The sharded constructor; its two assertions bound the arguments.
InitSharded ==
    \E n \in 1 .. MaxInstances : \E idx \in 0 .. (n - 1) : InitWith(n, idx)

\* AllocatePage, line 245: next_page_id_ += num_instances_.
AllocateAdvanceByOne(next) == next + 1
AllocateAdvance(next) == next + num_instances

\* ValidatePageId's assertion.
ValidatePageId(p) == p % num_instances = instance_index

\* The victim's old page leaves the page table (lines 113 and 178).
EvictKeepsEntry(table, replace_page) == table
EvictFromTable(table, replace_page) == Erase(table, replace_page.page_id)

\* is_all_spinned (lines 94-99 and 160-165): no frame has pin count 0.
AnyPinned(pgs) == \E i \in Frames : pgs[i].pin_count # 0
AllPinned(pgs) == \A i \in Frames : pgs[i].pin_count # 0

\* Lines 87 and 154: the free list has a frame to give.
FreeListSkipped(free) == FALSE
FreeListHasFrame(free) == free # <<>>

\* The frame a NewPgImp or a FetchPgImp miss binds (lines 85-115, and the
\* same code at 154-179): the free list first, else a victim of the
\* replacer unless every frame is pinned; a dirty victim is written back.
\* fid is NoFrame when there is none.
PickFrame ==
    LET none == [fid |-> NoFrame, free |-> free_list, r |-> Replacer,
                 disk |-> disk, table |-> page_table]
    IN IF FreeListHasFrame(free_list)
       THEN [none EXCEPT !.fid = Head(free_list), !.free = Tail(free_list)]
       ELSE IF AllPinned(pages)
       THEN none
       ELSE LET v == Victim(Replacer)
            IN IF ~v.ok
               THEN none
               ELSE LET replace_page == pages[v.fid]
                    IN [fid |-> v.fid,
                        free |-> free_list,
                        r |-> v.r,
                        disk |-> IF replace_page.is_dirty
                                 THEN WritePage(disk, replace_page.page_id,
                                                replace_page.data)
                                 ELSE disk,
                        table |-> EvictFromTable(page_table, replace_page)]

\* NewPgImp, lines 83-129, for the page id new: the program state after it.
NewPgImp(new) ==
    LET v == PickFrame
    IN IF v.fid = NoFrame
       THEN UNCHANGED bpmVars
       ELSE LET r == Pin(v.r, v.fid)
            IN /\ page_table' = Put(v.table, new, v.fid)
               /\ pages' = [pages EXCEPT ![v.fid] =
                              [page_id |-> new, is_dirty |-> FALSE,
                               pin_count |-> @.pin_count + 1,
                               data |-> ZeroData]]
               /\ free_list' = v.free
               /\ lru_list' = r.list
               /\ lru_map' = r.map
               /\ disk' = v.disk

\* What NewPgImp returns: the frame, or NoFrame for nullptr.
NewPgRet == PickFrame.fid

\* FetchPgImp, line 145: the page is resident.
FetchNeverHit(table, page_id) == FALSE
FetchHit(table, page_id) == page_id \in DOMAIN table

\* FetchPgImp, lines 140-191.
FetchPgImp(page_id) ==
    IF FetchHit(page_table, page_id)
    THEN LET fetch_fid == page_table[page_id]
             r == Pin(Replacer, fetch_fid)
         IN /\ pages' = [pages EXCEPT ![fetch_fid].pin_count = @ + 1]
            /\ lru_list' = r.list
            /\ lru_map' = r.map
            /\ UNCHANGED <<page_table, free_list, disk>>
    ELSE LET v == PickFrame
         IN IF v.fid = NoFrame
            THEN UNCHANGED bpmVars
            ELSE LET r == Pin(v.r, v.fid)
                 IN /\ pages' = [pages EXCEPT ![v.fid] =
                                     [page_id |-> page_id, is_dirty |-> FALSE,
                                      pin_count |-> @.pin_count + 1,
                                      data |-> ReadPage(v.disk, page_id)]]
                    /\ page_table' = Put(v.table, page_id, v.fid)
                    /\ free_list' = v.free
                    /\ lru_list' = r.list
                    /\ lru_map' = r.map
                    /\ disk' = v.disk

\* What FetchPgImp returns: the frame, or NoFrame for nullptr.
FetchPgRet(page_id) ==
    IF FetchHit(page_table, page_id) THEN page_table[page_id]
    ELSE PickFrame.fid

\* UnpinPgImp, line 233: the frame's dirty flag after the call.
UnpinDirty(old_dirty, is_dirty) == is_dirty

\* UnpinPgImp, line 237: whether the frame goes to the replacer.
UnpinAlwaysEvictable(new_count) == TRUE
UnpinEvictable(new_count) == new_count = 0

\* UnpinPgImp, line 234: an unpin of a frame nobody holds is refused.
UnpinNeverOverdone(unpin_page) == FALSE
UnpinOverdone(unpin_page) == unpin_page.pin_count <= 0

\* UnpinPgImp, lines 226-240.
UnpinPgImp(page_id, is_dirty) ==
    IF page_id \notin DOMAIN page_table
    THEN UNCHANGED bpmVars
    ELSE LET unpin_fid == page_table[page_id]
             unpin_page == pages[unpin_fid]
             dirty == UnpinDirty(unpin_page.is_dirty, is_dirty)
         IN IF UnpinOverdone(unpin_page)
            THEN /\ pages' = [pages EXCEPT ![unpin_fid].is_dirty = dirty]
                 /\ UNCHANGED <<page_table, free_list, lru_list, lru_map, disk>>
            ELSE LET r == IF UnpinEvictable(unpin_page.pin_count - 1)
                          THEN Unpin(Replacer, unpin_fid)
                          ELSE Replacer
                 IN /\ pages' = [pages EXCEPT
                                   ![unpin_fid].is_dirty = dirty,
                                   ![unpin_fid].pin_count = @ - 1]
                    /\ lru_list' = r.list
                    /\ lru_map' = r.map
                    /\ UNCHANGED <<page_table, free_list, disk>>

UnpinPgRet(page_id) ==
    /\ page_id \in DOMAIN page_table
    /\ ~UnpinOverdone(pages[page_table[page_id]])

\* FlushPgImp, lines 52-61.
FlushKeepsDirty(page_id) ==
    IF page_id \notin DOMAIN page_table
    THEN UNCHANGED bpmVars
    ELSE LET flush_page == pages[page_table[page_id]]
         IN /\ disk' = WritePage(disk, flush_page.page_id, flush_page.data)
            /\ UNCHANGED <<pages, page_table, free_list, lru_list, lru_map>>

FlushPgImp(page_id) ==
    IF page_id \notin DOMAIN page_table
    THEN UNCHANGED bpmVars
    ELSE LET flush_fid == page_table[page_id]
             flush_page == pages[flush_fid]
         IN /\ disk' = WritePage(disk, flush_page.page_id, flush_page.data)
            /\ pages' = [pages EXCEPT ![flush_fid].is_dirty = FALSE]
            /\ UNCHANGED <<page_table, free_list, lru_list, lru_map>>

FlushPgRet(page_id) == page_id \in DOMAIN page_table

\* FlushAllPgsImp, lines 66-72: every entry's frame is written under the
\* frame's own page id and made clean.
FlushAllPgsImp ==
    LET resident == {page_table[q] : q \in DOMAIN page_table}
        written == {pages[f].page_id : f \in resident}
    IN /\ disk' = [x \in (DOMAIN disk) \cup written |->
                     IF x \in written
                     THEN pages[CHOOSE f \in resident : pages[f].page_id = x].data
                     ELSE disk[x]]
       /\ pages' = [f \in Frames |->
                     IF f \in resident
                     THEN [pages[f] EXCEPT !.is_dirty = FALSE]
                     ELSE pages[f]]
       /\ UNCHANGED <<page_table, free_list, lru_list, lru_map>>

\* DeletePgImp, lines 216-218: the deleted frame's reset.
DeleteKeepsPageId(delete_page) ==
    [delete_page EXCEPT !.is_dirty = FALSE, !.data = ZeroData]
DeleteReset(delete_page) ==
    [delete_page EXCEPT !.page_id = INVALID_PAGE_ID, !.is_dirty = FALSE,
                        !.data = ZeroData]

\* DeletePgImp, line 208: a frame somebody is using is not deleted.
DeleteNeverPinned(delete_page) == FALSE
DeletePinned(delete_page) == delete_page.pin_count # 0

\* DeletePgImp, lines 200-222.  The replacer is not told.
DeletePgImp(page_id) ==
    IF page_id \notin DOMAIN page_table
    THEN UNCHANGED bpmVars
    ELSE LET delete_fid == page_table[page_id]
             delete_page == pages[delete_fid]
         IN IF DeletePinned(delete_page)
            THEN UNCHANGED bpmVars
            ELSE /\ disk' = IF delete_page.is_dirty
                            THEN WritePage(disk, delete_page.page_id,
                                           delete_page.data)
                            ELSE disk
                 /\ pages' = [pages EXCEPT ![delete_fid] = DeleteReset(delete_page)]
                 /\ free_list' = Append(free_list, delete_fid)
                 /\ page_table' = Erase(page_table, page_id)
                 /\ UNCHANGED <<lru_list, lru_map>>

DeletePgRet(page_id) ==
    \/ page_id \notin DOMAIN page_table
    \/ ~DeletePinned(pages[page_table[page_id]])

\* ------------------------------------------------------------- the calls
AllocLimit == instance_index + MaxAlloc * num_instances

\* AllocatePage, line 244, called by NewPgImp at line 81 without latch_.
AllocRead(t) ==
    /\ pc[t] = "idle"
    /\ next_page_id < AllocLimit
    /\ new_pid' = [new_pid EXCEPT ![t] = next_page_id]
    /\ pc' = [pc EXCEPT ![t] = "alloc"]
    /\ UNCHANGED <<bpmVars, config, next_page_id, new_calls, new_results, callers>>

\* AllocatePage, lines 245-247.
AllocAdd(t) ==
    /\ pc[t] = "alloc"
    /\ next_page_id' = AllocateAdvance(next_page_id)
    /\ pc' = [pc EXCEPT ![t] = "latch"]
    /\ UNCHANGED <<bpmVars, config, new_pid, new_calls, new_results, callers>>

\* NewPgImp from line 83 on, under latch_; new_results counts what it returns.
NewPage(t) ==
    /\ pc[t] = "latch"
    /\ NewPgImp(new_pid[t])
    /\ pc' = [pc EXCEPT ![t] = "idle"]
    /\ new_pid' = [new_pid EXCEPT ![t] = INVALID_PAGE_ID]
    /\ new_calls' = new_calls + 1
    /\ new_results' = IF NewPgRet = NoFrame THEN new_results
                      ELSE [new_results EXCEPT ![new_pid[t]] = @ + 1]
    /\ UNCHANGED <<config, next_page_id>>

FetchPage(p) ==
    /\ p \in DOMAIN page_table => pages[page_table[p]].pin_count < MaxPin
    /\ FetchPgImp(p)
    /\ UNCHANGED <<config, next_page_id, pc, new_pid, new_calls, new_results>>

UnpinPage(p, is_dirty) ==
    /\ UnpinPgImp(p, is_dirty)
    /\ UNCHANGED <<config, next_page_id, pc, new_pid, new_calls, new_results>>

FlushPage(p) ==
    /\ FlushPgImp(p)
    /\ UNCHANGED <<config, next_page_id, pc, new_pid, new_calls, new_results>>

FlushAllPages ==
    /\ FlushAllPgsImp
    /\ UNCHANGED <<config, next_page_id, pc, new_pid, new_calls, new_results>>

DeletePage(p) ==
    /\ DeletePgImp(p)
    /\ UNCHANGED <<config, next_page_id, pc, new_pid, new_calls, new_results>>

\* The page ids NewPage has returned, and whether a NewPage is under way.
Returned == {p \in DOMAIN new_results : new_results[p] > 0}
NoNewPageUnderWay == \A u \in Threads : pc[u] = "idle"

\* Any call with any argument, from any thread at any time.  The callers'
\* side is not followed, and the pages' bytes are left alone.
Next ==
    \/ \E t \in Threads : AllocRead(t)
    \/ \E t \in Threads : AllocAdd(t)
    \/ \E t \in Threads : NewPage(t) /\ UNCHANGED callers
    \/ \E p \in OwnIds : FetchPage(p) /\ UNCHANGED callers
    \/ \E p \in OwnIds : \E d \in BOOLEAN : UnpinPage(p, d) /\ UNCHANGED callers
    \/ \E p \in OwnIds : FlushPage(p) /\ UNCHANGED callers
    \/ FlushAllPages /\ UNCHANGED callers
    \/ \E p \in OwnIds : DeletePage(p) /\ UNCHANGED callers

Spec == Init /\ [][Next]_vars

\* The sharded constructor, and NewPage calls one after another: a call
\* starts when no other is under way.
NextSuccessive ==
    \/ \E t \in Threads : NoNewPageUnderWay /\ AllocRead(t)
    \/ \E t \in Threads : AllocAdd(t)
    \/ \E t \in Threads : NewPage(t) /\ UNCHANGED callers
    \/ \E p \in OwnIds : FetchPage(p) /\ UNCHANGED callers
    \/ \E p \in OwnIds : \E d \in BOOLEAN : UnpinPage(p, d) /\ UNCHANGED callers
    \/ \E p \in OwnIds : FlushPage(p) /\ UNCHANGED callers
    \/ FlushAllPages /\ UNCHANGED callers
    \/ \E p \in OwnIds : DeletePage(p) /\ UNCHANGED callers

SpecSharded == InitSharded /\ [][NextSuccessive]_vars

\* ------------------------------------------------------ the callers' side
\* The frames on which a caller still holds a pin it took on page p.
Handles(p) == {f \in Frames : held[f] > 0 /\ pages[f].page_id = p}

\* A successful NewPage or FetchPage hands its caller a pin on the frame.
TakesPin(fid) ==
    held' = IF fid = NoFrame THEN held ELSE [held EXCEPT ![fid] = @ + 1]

\* NewPage hands out a zeroed page: what was committed under its id is gone.
NewPageBy(t) ==
    /\ NewPage(t)
    /\ TakesPin(NewPgRet)
    /\ committed' = IF NewPgRet = NoFrame THEN committed
                    ELSE Erase(committed, new_pid[t])
    /\ UNCHANGED <<law, others>>

FetchPageHeld(p) ==
    /\ FetchPage(p)
    /\ TakesPin(FetchPgRet(p))
    /\ UNCHANGED <<committed, others>>

FetchPageBy(p) == FetchPageHeld(p) /\ UNCHANGED law

\* A caller gives back a pin it holds on p.  A dirty unpin that brings the
\* pin count to 0 commits the page's bytes.
UnpinPageHeld(p, is_dirty) ==
    /\ \E f \in Handles(p) : held' = [held EXCEPT ![f] = @ - 1]
    /\ UnpinPage(p, is_dirty)
    /\ committed' = IF UnpinPgRet(p) /\ is_dirty
                       /\ pages[page_table[p]].pin_count = 1
                    THEN Put(committed, p, pages[page_table[p]].data)
                    ELSE committed
    /\ UNCHANGED others

UnpinPageBy(p, is_dirty) == UnpinPageHeld(p, is_dirty) /\ UNCHANGED law

DeletePageBy(p) ==
    /\ DeletePage(p)
    /\ committed' = IF p \in DOMAIN page_table /\ DeletePgRet(p)
                    THEN Erase(committed, p)
                    ELSE committed
    /\ UNCHANGED <<held, law, others>>

\* A caller that holds a pin on frame f writes the page's bytes.
WriteData(f, bytes) ==
    /\ held[f] > 0
    /\ bytes # pages[f].data
    /\ pages' = [pages EXCEPT ![f].data = bytes]
    /\ committed' = Erase(committed, pages[f].page_id)
    /\ UNCHANGED <<page_table, free_list, lru_list, lru_map, disk, config,
                   next_page_id, pc, new_pid, new_calls, new_results, held,
                   law, others>>

\* Callers that keep to the contract, from any thread at any time: they
\* fetch, flush and delete only page ids NewPage has returned, and unpin
\* only pins they hold.  The pages' bytes are left alone.
NextClients ==
    \/ \E t \in Threads : AllocRead(t)
    \/ \E t \in Threads : AllocAdd(t)
    \/ \E t \in Threads : NewPageBy(t)
    \/ \E p \in Returned : FetchPageBy(p)
    \/ \E p \in Returned : \E d \in BOOLEAN : UnpinPageBy(p, d)
    \/ \E p \in Returned : FlushPage(p) /\ UNCHANGED callers
    \/ FlushAllPages /\ UNCHANGED callers
    \/ \E p \in Returned : DeletePageBy(p)

SpecClients == Init /\ [][NextClients]_vars

\* Callers that keep to the contract and write the bytes of the pages they
\* hold, NewPage calls one after another.
NextData ==
    \/ \E t \in Threads : NoNewPageUnderWay /\ AllocRead(t)
    \/ \E t \in Threads : AllocAdd(t)
    \/ \E t \in Threads : NewPageBy(t)
    \/ \E p \in Returned : FetchPageBy(p)
    \/ \E p \in Returned : \E d \in BOOLEAN : UnpinPageBy(p, d)
    \/ \E p \in Returned : FlushPage(p) /\ UNCHANGED callers
    \/ FlushAllPages /\ UNCHANGED callers
    \/ \E p \in Returned : DeletePageBy(p)
    \/ \E f \in Frames : \E b \in Data : WriteData(f, b)

SpecData == Init /\ [][NextData]_vars

\* A run of FetchPage(p) and UnpinPage(p, *) calls on one resident page p,
\* each unpin after its fetch, and no other call while it lasts.  law keeps
\* the frame and the pin count p had when the run began, how many fetches
\* are not yet matched, and whether a pair is complete.
LawBegin(p) ==
    /\ ~law.on
    /\ p \in DOMAIN page_table
    /\ law' = [on |-> TRUE, p |-> p, f |-> page_table[p],
               pin0 |-> pages[page_table[p]].pin_count,
               open |-> 0, done |-> FALSE]
    /\ UNCHANGED <<bpmVars, config, next_page_id, pc, new_pid, new_calls,
                   new_results, held, committed, others>>

LawFetch ==
    /\ law.on
    /\ FetchPageHeld(law.p)
    /\ law' = [law EXCEPT !.open = @ + 1]

LawUnpin(is_dirty) ==
    /\ law.on
    /\ law.open > 0
    /\ UnpinPageHeld(law.p, is_dirty)
    /\ law' = [law EXCEPT !.open = @ - 1, !.done = TRUE]

LawEnd ==
    /\ law.on
    /\ law.open = 0
    /\ law.done
    /\ law' = NoLaw
    /\ UNCHANGED <<bpmVars, config, next_page_id, pc, new_pid, new_calls,
                   new_results, held, committed, others>>

\* The callers of SpecData, and such runs among their calls.
NextLaw ==
    \/ ~law.on /\ NextData
    \/ \E p \in Returned : LawBegin(p)
    \/ LawFetch
    \/ \E d \in BOOLEAN : LawUnpin(d)
    \/ LawEnd

SpecLaw == Init /\ [][NextLaw]_vars

\* ------------------------------------------------- the calls, lock by lock
\* Every public operation constructs std::unique_lock on latch_ (lines 51,
\* 65, 83, 140, 200, 226) and every method of the replacer one on mutex_
\* (lru_replacer.cpp 18, 30, 42); the destructor unlocks at the return.  A
\* thread waits for latch_, runs the body, inside it waits for mutex_ once
\* for each call it makes into the replacer, and returns.  Nothing but the
\* holder of latch_ touches the BPMI's data, so the body's effect on it is
\* taken at the return.
histVars == <<held, committed, law, lru_ref>>

\* The destructor of std::unique_lock: the lock is free again.
UnlockForgotten(owner) == owner
Unlock(owner) == NoThread

\* How many calls into the replacer the frame search and the binding make
\* (Victim at 105 or 170, Pin at 126 or 189).
MissCalls ==
    IF FreeListHasFrame(free_list) THEN 1
    ELSE IF AllPinned(pages) THEN 0
    ELSE IF Victim(Replacer).ok THEN 2 ELSE 1

\* How many calls into the replacer the body of op makes in this state.
ReplCalls(op, p) ==
    CASE op = "NewPage" -> MissCalls
      [] op = "FetchPage" -> IF FetchHit(page_table, p) THEN 1 ELSE MissCalls
      [] op = "UnpinPage" ->
            IF UnpinPgRet(p)
               /\ UnpinEvictable(pages[page_table[p]].pin_count - 1)
            THEN 1 ELSE 0
      [] OTHER -> 0

\* A thread calls an operation other than NewPage.
Begin(t, op, p, d) ==
    /\ pc[t] = "idle"
    /\ begun < MaxCalls
    /\ op = "FetchPage" =>
          (p \in DOMAIN page_table => pages[page_table[p]].pin_count < MaxPin)
    /\ pc' = [pc EXCEPT ![t] = "enter"]
    /\ run' = [run EXCEPT ![t] = [op |-> op, p |-> p, d |-> d, calls |-> 0]]
    /\ begun' = begun + 1
    /\ UNCHANGED <<bpmVars, config, next_page_id, new_pid, new_calls,
                   new_results, histVars, latch, mutex>>

\* The unique_lock on latch_ is constructed: the thread has the latch.
AcquireLatch(t) ==
    /\ pc[t] \in {"latch", "enter"}
    /\ latch = NoThread
    /\ latch' = t
    /\ pc' = [pc EXCEPT ![t] = "body"]
    /\ run' = [run EXCEPT ![t] =
                  IF pc[t] = "latch"
                  THEN [op |-> "NewPage", p |-> new_pid[t], d |-> FALSE,
                        calls |-> ReplCalls("NewPage", new_pid[t])]
                  ELSE [op |-> run[t].op, p |-> run[t].p, d |-> run[t].d,
                        calls |-> ReplCalls(run[t].op, run[t].p)]]
    /\ UNCHANGED <<bpmVars, config, next_page_id, new_pid, new_calls,
                   new_results, histVars, mutex, begun>>

\* The body calls into the replacer: the unique_lock on mutex_.
ReplEnter(t) ==
    /\ pc[t] = "body"
    /\ run[t].calls > 0
    /\ mutex = NoThread
    /\ mutex' = t
    /\ pc' = [pc EXCEPT ![t] = "mutex"]
    /\ UNCHANGED <<bpmVars, config, next_page_id, new_pid, new_calls,
                   new_results, histVars, latch, run, begun>>

\* The replacer's method returns.
ReplLeave(t) ==
    /\ pc[t] = "mutex"
    /\ mutex' = Unlock(mutex)
    /\ pc' = [pc EXCEPT ![t] = "body"]
    /\ run' = [run EXCEPT ![t].calls = @ - 1]
    /\ UNCHANGED <<bpmVars, config, next_page_id, new_pid, new_calls,
                   new_results, histVars, latch, begun>>

\* The operation returns: its effect on the BPMI, and latch_ is free.
Return(t) ==
    /\ pc[t] = "body"
    /\ run[t].calls = 0
    /\ CASE run[t].op = "NewPage" ->
               /\ NewPgImp(new_pid[t])
               /\ new_pid' = [new_pid EXCEPT ![t] = INVALID_PAGE_ID]
               /\ new_calls' = new_calls + 1
               /\ new_results' = IF NewPgRet = NoFrame THEN new_results
                                 ELSE [new_results EXCEPT ![new_pid[t]] = @ + 1]
         [] run[t].op = "FetchPage" ->
               FetchPgImp(run[t].p) /\ UNCHANGED <<new_pid, new_calls, new_results>>
         [] run[t].op = "UnpinPage" ->
               UnpinPgImp(run[t].p, run[t].d)
                  /\ UNCHANGED <<new_pid, new_calls, new_results>>
         [] run[t].op = "FlushPage" ->
               FlushPgImp(run[t].p) /\ UNCHANGED <<new_pid, new_calls, new_results>>
         [] run[t].op = "FlushAllPages" ->
               FlushAllPgsImp /\ UNCHANGED <<new_pid, new_calls, new_results>>
         [] run[t].op = "DeletePage" ->
               DeletePgImp(run[t].p) /\ UNCHANGED <<new_pid, new_calls, new_results>>
    /\ latch' = Unlock(latch)
    /\ pc' = [pc EXCEPT ![t] = "idle"]
    /\ run' = [run EXCEPT ![t] = NoRun]
    /\ UNCHANGED <<config, next_page_id, histVars, mutex, begun>>

\* What one thread does when it is scheduled.
Step(t) ==
    \/ AllocAdd(t)
    \/ AcquireLatch(t)
    \/ ReplEnter(t)
    \/ ReplLeave(t)
    \/ Return(t)

NextLocks ==
    \/ \E t \in Threads : AllocRead(t)
    \/ \E t \in Threads : \E p \in OwnIds : Begin(t, "FetchPage", p, FALSE)
    \/ \E t \in Threads : \E p \in OwnIds : \E d \in BOOLEAN :
          Begin(t, "UnpinPage", p, d)
    \/ \E t \in Threads : \E p \in OwnIds : Begin(t, "FlushPage", p, FALSE)
    \/ \E t \in Threads : Begin(t, "FlushAllPages", INVALID_PAGE_ID, FALSE)
    \/ \E t \in Threads : \E p \in OwnIds : Begin(t, "DeletePage", p, FALSE)
    \/ \E t \in Threads : AllocAdd(t)
    \/ \E t \in Threads : AcquireLatch(t)
    \/ \E t \in Threads : ReplEnter(t)
    \/ \E t \in Threads : ReplLeave(t)
    \/ \E t \in Threads : Return(t)

\* Fair scheduling: a thread that can take a step takes one, and a thread
\* that waits for a lock that is free again and again gets it.
SpecLocks ==
    /\ Init
    /\ [][NextLocks]_vars
    /\ \A t \in Threads :
          /\ WF_vars(AllocAdd(t) \/ ReplLeave(t) \/ Return(t))
          /\ SF_vars(AcquireLatch(t))
          /\ SF_vars(ReplEnter(t))

\* ------------------------------------------------- the replacer by itself
\* A replacer of capacity ReplCapacity whose callers pass any frame id.
\* Every method holds mutex_ from its first line to its return, so each
\* call is one step, whichever thread makes it.
FrameIds == 0 .. MaxFrameId
LoneReplacer == [list |-> lru_list, map |-> lru_map, capacity |-> ReplCapacity]

\* The reference the replacer is held against: the evictable frames, the
\* one that became evictable earliest first.
RefVictim(ref) == IF ref = <<>> THEN ref ELSE Tail(ref)
RefPin(ref, f) == SelectSeq(ref, LAMBDA x : x # f)
RefUnpin(ref, f, cap) ==
    IF f \in Elems(ref) \/ Len(ref) = cap THEN ref ELSE Append(ref, f)

bpmiVars == <<pages, page_table, free_list, disk, config, next_page_id, pc,
              new_pid, new_calls, new_results, held, committed, law, latch,
              mutex, run, begun>>

ReplVictim ==
    LET v == Victim(LoneReplacer)
    IN /\ lru_list' = v.r.list
       /\ lru_map' = v.r.map
       /\ lru_ref' = RefVictim(lru_ref)
       /\ UNCHANGED bpmiVars

ReplPin(f) ==
    LET r == Pin(LoneReplacer, f)
    IN /\ lru_list' = r.list
       /\ lru_map' = r.map
       /\ lru_ref' = RefPin(lru_ref, f)
       /\ UNCHANGED bpmiVars

ReplUnpin(f) ==
    LET r == Unpin(LoneReplacer, f)
    IN /\ lru_list' = r.list
       /\ lru_map' = r.map
       /\ lru_ref' = RefUnpin(lru_ref, f, ReplCapacity)
       /\ UNCHANGED bpmiVars

NextReplacer ==
    \/ ReplVictim
    \/ \E f \in FrameIds : ReplPin(f)
    \/ \E f \in FrameIds : ReplUnpin(f)

SpecReplacer == Init /\ [][NextReplacer]_vars

Reverse(s) == [i \in 1 .. Len(s) |-> s[Len(s) + 1 - i]]

\* ------------------------------------------------------------ the claims
InFreeList(f) == f \in Elems(free_list)
Evictable(f) == f \in lru_map \/ f \in Elems(lru_list)
Resident(p) == p \in DOMAIN page_table

\* C1: while a caller holds a pin it took on a frame (from its NewPage or
\* FetchPage to its matching UnpinPage), no step rebinds the frame to
\* another page id (as the choice of a victim does) or puts it on the free
\* list.
C1_PinProtection ==
    [][\A f \in Frames :
          held[f] > 0 => /\ pages'[f].page_id = pages[f].page_id
                         /\ f \notin Elems(free_list')]_vars

\* C2: every pin count is >= 0, and a frame with a pin count > 0 is not in
\* the replacer.
C2_PinnedNotEvictable ==
    \A f \in Frames :
        /\ pages[f].pin_count >= 0
        /\ pages[f].pin_count > 0 => ~Evictable(f)

\* C2's case: a pinned frame, while the replacer holds another frame.
C2_Witness ==
    \E f, g \in Frames : pages[f].pin_count = MaxPin /\ g \in lru_map

\* C3: every entry pid -> fid of the page table names a frame whose page_id
\* is pid.
C3_PageTableConsistent ==
    \A pid \in DOMAIN page_table : pages[page_table[pid]].page_id = pid

\* C3's case: every frame is bound, and a page NewPage returned was evicted.
C3_Witness ==
    /\ Cardinality(DOMAIN page_table) = PoolSize
    /\ free_list = <<>>
    /\ \E p \in Returned : ~Resident(p) /\ \A f \in Frames : pages[f].page_id # p

\* C4: the free list, the pinned frames and the replacer's frames are
\* pairwise disjoint and hold every frame exactly once.
C4_FramePartition ==
    /\ \A f \in Frames :
          \/ InFreeList(f) /\ pages[f].pin_count = 0 /\ ~Evictable(f)
          \/ ~InFreeList(f) /\ pages[f].pin_count > 0 /\ ~Evictable(f)
          \/ ~InFreeList(f) /\ pages[f].pin_count = 0 /\ Evictable(f)
    /\ Cardinality(Elems(free_list)) = Len(free_list)
    /\ Cardinality(Elems(lru_list)) = Len(lru_list)

\* C5: every frame in the free list has page_id INVALID and pin count 0.
C5_FreeFramesUnbound ==
    \A f \in Frames :
        InFreeList(f) => /\ pages[f].page_id = INVALID_PAGE_ID
                         /\ pages[f].pin_count = 0

\* C5's case: a frame DeletePage put at the back of the free list, behind
\* one that is free since construction.
C5_Witness ==
    /\ Len(free_list) = PoolSize
    /\ free_list # InitFreeList
    /\ Returned # {}

TotalReturned == LET RECURSIVE Sum(_)
                     Sum(S) == IF S = {} THEN 0
                               ELSE LET x == CHOOSE x \in S : TRUE
                                    IN new_results[x] + Sum(S \ {x})
                 IN Sum(DOMAIN new_results)

\* C6: every page id NewPage returns is instance_index modulo
\* num_instances; next_page_id starts at instance_index and each
\* AllocatePage returns its current value and advances it by exactly
\* num_instances; while no call has failed, the k-th of successive NewPage
\* calls returns instance_index + (k - 1) * num_instances.
C6_ShardedIds ==
    /\ [](/\ \A p \in Returned : p % num_instances = instance_index
          /\ next_page_id = instance_index + num_instances *
                (new_calls + Cardinality({t \in Threads : pc[t] = "latch"})))
    /\ [][\A t \in Threads :
             /\ AllocRead(t) => new_pid'[t] = next_page_id
             /\ AllocAdd(t) => /\ next_page_id' = next_page_id + num_instances
                               /\ ValidatePageId(new_pid[t])
             /\ (NewPage(t) /\ NewPgRet # NoFrame /\ new_calls = TotalReturned)
                   => new_pid[t] = instance_index + new_calls * num_instances]_vars

\* C6's case: the instance of index 2 among 4, after MaxAlloc NewPage calls
\* that all returned a page.
C6_Witness ==
    /\ num_instances = 4
    /\ instance_index = 2
    /\ new_calls = MaxAlloc
    /\ TotalReturned = MaxAlloc
    /\ \A k \in 0 .. (MaxAlloc - 1) : new_results[2 + 4 * k] = 1

\* C7: no two NewPage calls return the same page id.
C7_FreshPageIds == \A p \in DOMAIN new_results : new_results[p] <= 1

\* C8: UnpinPage(p, d) on a resident page leaves the frame's is_dirty at
\* (old is_dirty OR d), also when it returns false.
C8_DirtyAccumulates ==
    [][\A p \in OwnIds : \A d \in BOOLEAN :
          (UnpinPageBy(p, d) /\ Resident(p))
             => pages'[page_table[p]].is_dirty
                   = (pages[page_table[p]].is_dirty \/ d)]_vars

\* C9: the bytes a page had when a dirty unpin brought its pin count to 0,
\* and that no caller has written over since, are the bytes the disk holds
\* for the page once it is evicted, and the bytes of its frame when it is
\* resident (as after a later FetchPage).
C9_WriteBackRoundTrip ==
    \A p \in DOMAIN committed :
        IF Resident(p)
        THEN pages[page_table[p]].data = committed[p]
        ELSE disk[p] = committed[p]

\* C10: FlushPage(p) of a page that is not in the page table changes
\* nothing (and returns false); FlushPage(p) of a resident page (which
\* returns true) leaves the disk image of p equal to the frame's bytes and
\* the frame clean, and changes nothing else: not the page table, the free
\* list or the replacer, no pin count, page_id or bytes, no other frame's
\* is_dirty and no other page's disk image.
C10_FlushOnlyWritesBack ==
    [][\A p \in OwnIds :
          (FlushPage(p) /\ UNCHANGED callers) =>
             IF ~FlushPgRet(p)
             THEN ~Resident(p) /\ UNCHANGED vars
             ELSE LET f == page_table[p]
                  IN /\ Resident(p)
                     /\ disk'[p] = pages[f].data
                     /\ pages'[f] = [pages[f] EXCEPT !.is_dirty = FALSE]
                     /\ \A g \in Frames \ {f} : pages'[g] = pages[g]
                     /\ \A q \in (DOMAIN disk) \ {p} : disk'[q] = disk[q]
                     /\ DOMAIN disk' = DOMAIN disk
                     /\ UNCHANGED <<page_table, free_list, lru_list, lru_map>>]_vars

\* C10's case: a pinned resident page whose bytes a caller wrote, and which
\* is clean with the same bytes on disk though no unpin committed them.
C10_Witness ==
    \E p \in DOMAIN page_table :
        LET f == page_table[p]
        IN /\ pages[f].data # ZeroData
           /\ disk[p] = pages[f].data
           /\ ~pages[f].is_dirty
           /\ pages[f].pin_count > 0
           /\ held[f] > 0
           /\ p \notin DOMAIN committed

\* C11: DeletePage(p) returns false exactly when p is resident with a pin
\* count other than 0, and then changes nothing; otherwise it returns true
\* and p is not in the page table afterwards, and when p was resident its
\* frame was written back if dirty, reset to page_id INVALID, clean, zeroed
\* bytes, and appended to the free list.
C11_DeleteContract ==
    [][\A p \in OwnIds :
          DeletePageBy(p) =>
             IF Resident(p) /\ pages[page_table[p]].pin_count # 0
             THEN ~DeletePgRet(p) /\ UNCHANGED vars
             ELSE /\ DeletePgRet(p)
                  /\ p \notin DOMAIN page_table'
                  /\ Resident(p) =>
                        LET f == page_table[p]
                        IN /\ pages[f].is_dirty => disk'[p] = pages[f].data
                           /\ pages'[f].page_id = INVALID_PAGE_ID
                           /\ ~pages'[f].is_dirty
                           /\ pages'[f].data = ZeroData
                           /\ pages'[f].pin_count = 0
                           /\ free_list' = Append(free_list, f)]_vars

\* C11's case: the page of frame 0, with bytes a caller wrote and a dirty
\* unpin, was deleted: the frame is reset and at the back of the free list,
\* and the bytes are on disk.
C11_Witness ==
    /\ free_list = Tail(InitFreeList) \o <<0>>
    /\ pages[0] = InitPage
    /\ page_table = EmptyMap
    /\ \E p \in Returned : disk[p] # ZeroData

\* C12: UnpinPage(p, d) returns false exactly when p is not in the page
\* table or its frame's pin count is <= 0, and then leaves every pin count,
\* the page table, the free list and the replacer unchanged; otherwise it
\* returns true, takes exactly 1 off that frame's pin count, and the frame
\* enters the replacer if and only if the new pin count is 0.
C12_UnpinContract ==
    [][\A p \in OwnIds : \A d \in BOOLEAN :
          (UnpinPage(p, d) /\ UNCHANGED callers) =>
             IF ~Resident(p) \/ pages[page_table[p]].pin_count <= 0
             THEN /\ ~UnpinPgRet(p)
                  /\ \A f \in Frames : pages'[f].pin_count = pages[f].pin_count
                  /\ UNCHANGED <<page_table, free_list, lru_list, lru_map>>
             ELSE LET f == page_table[p]
                  IN /\ UnpinPgRet(p)
                     /\ pages'[f].pin_count = pages[f].pin_count - 1
                     /\ \A g \in Frames \ {f} :
                           pages'[g].pin_count = pages[g].pin_count
                     /\ UNCHANGED <<page_table, free_list>>
                     /\ IF pages'[f].pin_count = 0
                        THEN /\ ~Evictable(f)
                             /\ lru_list' = <<f>> \o lru_list
                             /\ lru_map' = lru_map \cup {f}
                        ELSE /\ UNCHANGED <<lru_list, lru_map>>
                             /\ f \notin lru_map']_vars

\* C12's case: every frame is bound, one page was unpinned to 0 and its
\* frame is the replacer's only one, another is still pinned once.
C12_Witness ==
    /\ Cardinality(DOMAIN page_table) = PoolSize
    /\ \E p, q \in DOMAIN page_table :
          /\ pages[page_table[p]].pin_count = 0
          /\ lru_list = <<page_table[p]>>
          /\ lru_map = {page_table[p]}
          /\ pages[page_table[q]].pin_count = 1

ReplacerTest ==
    LET RECURSIVE UnpinAll(_, _)
        UnpinAll(r, fs) == IF fs = <<>> THEN r
                           ELSE UnpinAll(Unpin(r, Head(fs)), Tail(fs))
        r0 == [list |-> <<>>, map |-> {}, capacity |-> 7]
        r1 == UnpinAll(r0, <<1, 2, 3, 4, 5, 6, 1>>)
        v1 == Victim(r1)
        r2 == Pin(Pin(v1.r, 3), 4)
        v2 == Victim(r2)
        v3 == Victim(v2.r)
        v4 == Victim(v3.r)
    IN <<v1.fid, v2.fid, v3.fid, v4.fid>>

\* C14: after any sequence of Victim, Pin and Unpin calls, Victim returns
\* none if and only if no frame is evictable, and otherwise removes and
\* returns the frame that became evictable earliest; an Unpin of a frame
\* that is evictable changes nothing; Pin then Unpin of an evictable frame
\* makes it the most recent; the test with capacity 7 gives 1, 2, 5, 6.
C14_LruOrder ==
    /\ [](/\ Elems(lru_ref) = lru_map
          /\ lru_list = Reverse(lru_ref)
          /\ \A f \in lru_map :
                LET r == Unpin(Pin(LoneReplacer, f), f)
                IN /\ Head(r.list) = f
                   /\ Tail(r.list) = SelectSeq(lru_list, LAMBDA x : x # f)
                   /\ r.map = lru_map
          /\ ReplacerTest = <<1, 2, 5, 6>>)
    /\ [][/\ ReplVictim =>
               LET v == Victim(LoneReplacer)
               IN /\ v.ok <=> lru_ref # <<>>
                  /\ ~v.ok => v.fid = NoFrame /\ UNCHANGED <<lru_list, lru_map>>
                  /\ v.ok => /\ v.fid = Head(lru_ref)
                              /\ lru_map' = lru_map \ {v.fid}
                              /\ v.fid \notin Elems(lru_list')
          /\ \A f \in lru_map :
                ReplUnpin(f) => UNCHANGED <<lru_list, lru_map>>]_vars

\* C14's case: frames 0..3 became evictable in that order, Victim took 0,
\* Pin took 2 out of the middle, and 0 became evictable again.
C14_Witness ==
    /\ lru_ref = <<1, 3, 0>>
    /\ lru_list = <<0, 3, 1>>

\* C15: in every reachable state, NewPage and a FetchPage of a page that
\* is not resident return none if and only if the free list is empty and
\* every frame has a pin count > 0; when the free list is empty and some
\* frame has pin count 0, the replacer has a victim, of pin count 0, and
\* the call returns it.
C15_NoFrameAvailable ==
    LET refused == free_list = <<>> /\ \A f \in Frames : pages[f].pin_count > 0
    IN /\ (NewPgRet = NoFrame) <=> refused
       /\ \A p \in OwnIds :
             ~Resident(p) => ((FetchPgRet(p) = NoFrame) <=> refused)
       /\ (free_list = <<>> /\ ~refused) =>
             LET v == Victim(Replacer)
             IN /\ v.ok
                /\ pages[v.fid].pin_count = 0
                /\ NewPgRet = v.fid
                /\ \A p \in OwnIds : ~Resident(p) => FetchPgRet(p) = v.fid

\* C15's case: a NewPage call has its page id and is about to take the
\* latch while the free list is empty and every frame is pinned.
C15_Witness ==
    /\ free_list = <<>>
    /\ \A f \in Frames : pages[f].pin_count > 0
    /\ \E t \in Threads : pc[t] = "latch"
    /\ \E p \in OwnIds : ~Resident(p)

\* C16: in every reachable state no two frames are bound to the same valid
\* page id, and every frame is either in the free list or the frame the
\* page table maps its page_id to, so that the page table and the free
\* list together count pool_size; for every call sequence, a FetchPage of
\* an id NewPage has not yet allocated and overlapping NewPage calls
\* included.
C16_FramesAccounted ==
    /\ \A f, g \in Frames :
          (f # g /\ pages[f].page_id # INVALID_PAGE_ID)
             => pages[f].page_id # pages[g].page_id
    /\ \A f \in Frames :
          \/ InFreeList(f)
          \/ Resident(pages[f].page_id) /\ page_table[pages[f].page_id] = f
    /\ Cardinality(DOMAIN page_table) + Len(free_list) = PoolSize

\* What C17 says of a call that binds page id p while the free list has a
\* frame: it binds the frame at the front of the free list, removes no
\* entry of the page table and changes no entry of another page id, writes
\* nothing to disk, changes no other frame, and takes no victim from the
\* replacer (which loses at most the bound frame, by Pin).
BindsFreeFront(p) ==
    LET f == Head(free_list)
    IN /\ free_list' = Tail(free_list)
       /\ p \in DOMAIN page_table' /\ page_table'[p] = f
       /\ pages'[f].page_id = p
       /\ DOMAIN page_table \subseteq DOMAIN page_table'
       /\ \A q \in (DOMAIN page_table) \ {p} : page_table'[q] = page_table[q]
       /\ disk' = disk
       /\ \A g \in Frames \ {f} : pages'[g] = pages[g]
       /\ lru_list' = SelectSeq(lru_list, LAMBDA x : x # f)
       /\ lru_map' = lru_map \ {f}

\* C17: whenever the free list is not empty, NewPage and a FetchPage miss
\* bind the frame at the front of the free list and evict nothing: no
\* entry leaves the page table, no page is written to disk, no resident
\* frame's page_id, pin count or dirty flag changes, and Victim is not
\* called.
C17_FreeListFirst ==
    [][free_list # <<>> =>
          /\ \A t \in Threads :
                (NewPage(t) /\ UNCHANGED callers) =>
                   NewPgRet = Head(free_list) /\ BindsFreeFront(new_pid[t])
          /\ \A p \in OwnIds :
                (FetchPage(p) /\ UNCHANGED callers /\ ~Resident(p)) =>
                   FetchPgRet(p) = Head(free_list) /\ BindsFreeFront(p)]_vars

\* C17's case: the last free frame was bound, by a call that returned it
\* pinned, while the other frames hold dirty pages the replacer could
\* have given.
C17_Witness ==
    /\ free_list = <<>>
    /\ pages[PoolSize - 1].pin_count = 1
    /\ ~pages[PoolSize - 1].is_dirty
    /\ \A f \in Frames \ {PoolSize - 1} :
          /\ pages[f].is_dirty
          /\ f \in lru_map
          /\ Resident(pages[f].page_id)

\* C18: after any sequence of Victim, Pin and Unpin calls with any frame
\* ids, from any threads, the keys of the map are the elements of the
\* list, the list holds no frame id twice and is no longer than capacity;
\* an Unpin that arrives when the size equals capacity changes nothing.
C18_ReplacerStructure ==
    /\ [](/\ lru_map = Elems(lru_list)
          /\ Cardinality(Elems(lru_list)) = Len(lru_list)
          /\ Len(lru_list) <= ReplCapacity)
    /\ [][\A f \in FrameIds :
             (ReplUnpin(f) /\ Cardinality(lru_map) = ReplCapacity)
                => UNCHANGED <<lru_list, lru_map>>]_vars

\* C18's case: the replacer is full and a caller has one more frame id to
\* unpin.
C18_Witness ==
    /\ Len(lru_list) = ReplCapacity
    /\ Cardinality(lru_map) = ReplCapacity
    /\ \E f \in FrameIds : f \notin lru_map

\* The reference for Pin: a direct erase of f from the list and the map.
PinByErase(r, f) ==
    IF f \notin r.map THEN r
    ELSE [r EXCEPT !.list = SelectSeq(r.list, LAMBDA x : x # f),
                   !.map = r.map \ {f}]

\* The results of calling Victim until it returns none.
RECURSIVE VictimResults(_)
VictimResults(r) ==
    LET v == Victim(r)
    IN IF v.ok THEN <<v.fid>> \o VictimResults(v.r) ELSE <<>>

\* C19: Pin(f) is a direct erase: if f is not evictable nothing changes;
\* otherwise exactly f leaves the list and the map, and the order of the
\* other frames, hence the results of the later Victim calls, is as
\* before, wherever f was in the list; the splice to the front followed by
\* pop_front gives this for every reachable list.
C19_PinIsErase ==
    /\ [](\A f \in FrameIds :
            LET r == Pin(LoneReplacer, f)
            IN /\ r = PinByErase(LoneReplacer, f)
               /\ f \notin lru_map => r = LoneReplacer
               /\ f \in lru_map =>
                     /\ r.map = lru_map \ {f}
                     /\ Len(r.list) = Len(lru_list) - 1
                     /\ VictimResults(r) =
                           SelectSeq(VictimResults(LoneReplacer),
                                     LAMBDA x : x # f))
    /\ [][\A f \in FrameIds :
             ReplPin(f) =>
                /\ lru_list' = PinByErase(LoneReplacer, f).list
                /\ lru_map' = PinByErase(LoneReplacer, f).map]_vars

\* C19's case: of the frames 0..3, evictable in that order, Pin took 2
\* out of the middle of the list; the front, the middle and the back of
\* what is left can each be pinned next.
C19_Witness ==
    /\ lru_list = <<3, 1, 0>>
    /\ lru_map = {0, 1, 3}
    /\ lru_ref = <<0, 1, 3>>

\* C20: with threads calling NewPage, FetchPage, UnpinPage, FlushPage,
\* FlushAllPages and DeletePage, the replacer's mutex is taken only by the
\* holder of the BPMI latch and the latch is never taken by a holder of
\* the mutex; in no reachable state are all threads that are in a call
\* blocked; and under fair scheduling every call that started returns,
\* with both locks released.
C20_NoDeadlock ==
    /\ [](\A t \in Threads :
            /\ mutex = t => latch = t /\ pc[t] = "mutex"
            /\ latch = t => pc[t] \in {"body", "mutex"}
            /\ pc[t] = "idle" => latch # t /\ mutex # t)
    /\ []((\E t \in Threads : pc[t] # "idle")
            => \E t \in Threads : ENABLED Step(t))
    /\ [][\A t \in Threads :
             /\ AcquireLatch(t) => mutex # t
             /\ ReplEnter(t) => latch = t]_vars
    /\ \A t \in Threads :
          (pc[t] # "idle") ~> (pc[t] = "idle" /\ latch # t /\ mutex # t)

\* C20's case: one thread is inside the replacer for the first of the two
\* calls of an eviction (Victim, then Pin), holding both locks, and every
\* other thread has called an operation and waits for the latch.
C20_Witness ==
    \E t \in Threads :
        /\ pc[t] = "mutex"
        /\ run[t].calls = 2
        /\ latch = t
        /\ mutex = t
        /\ \A u \in Threads \ {t} : pc[u] \in {"latch", "enter"}

====
